---- MODULE Spec2Model ----
(***************************************************************************)
(* Model of the task scheduling and workflow engine                        *)
(* src/agent/core/scheduler.py (class SchedulerModule).                    *)
(*                                                                         *)
(* State: the task store (_tasks), the job store of the underlying         *)
(* scheduler (ids that have a firing job), the result log (_results), the  *)
(* snapshot file written by _save_tasks, the event subscriptions           *)
(* (_event_handlers), the workflows (_workflows) and, per caller, the      *)
(* stack of coroutine frames of the entry point it is running.             *)
(* The coroutines are cut at their suspension points: each action is the   *)
(* code one frame runs between two awaits.                                 *)
(***************************************************************************)
EXTENDS Integers, Sequences, FiniteSets, TLC

(* ---------------------------------------------------------------- bounds *)
MaxResults == 3      \* entry points are taken while the log is shorter
MaxRetry == 2        \* largest retry_count given to a task
MaxCap == 2          \* largest max_runs given to a task
MaxSubs == 3         \* on_event is called while a subscriber list is shorter
MaxWfSteps == 3      \* run_workflow dispatches at most this many steps
MaxEmitLog == 2      \* emit_event is called while the log is shorter
MaxRestartRuns == 2  \* the engine is restarted while every run_count is lower
MaxDiskSubs == 2     \* subscribers of an event emitted while the disk may fail
MaxConcLog == 1      \* results logged before the last overlapping dispatch starts
MaxOverlapLog == 1   \* results logged before the last overlapping firing starts

(* ------------------------------------------------------ program constants *)
ResultCap == 1000    \* len(self._results) > 1000
ResultKeep == 500    \* self._results[-500:]
Never == 0           \* last_run = None
Now == 1             \* datetime.now(): some non-null timestamp
NoLimit == -1        \* max_runs = None
Later == 2           \* job.next_run_time: some non-null timestamp
DefaultRetryDelay == 60
max_instances == 3           \* job_defaults of the AsyncIOScheduler
max_concurrent_tasks == 5    \* SchedulerSettings

TaskIds == {"a", "b", "c"}
Procs == {1, 2, 3, 4}

Events == {"x"}
WfIds == {"w"}

NoTask == [absent |-> TRUE]
NoWorkflow == [present |-> FALSE, steps |-> <<>>]
NoResult == [task_id |-> "", status |-> "none", error |-> "", end_time |-> 0]
Absent == "absent"   \* key "event_data" not in action_params
Data == {"d1", "d2"}

(* TriggerType *)
TriggerTypes == {"cron", "interval", "date", "event", "condition", "startup"}

(* _register_builtin_actions: the names in self._actions after             *)
(* construction.  Every built-in handler takes a fixed list of keywords:   *)
(* "print" takes (message) and returns it, "run_command" takes (command),  *)
(* calls an external collaborator and returns or raises.  "hook" is a      *)
(* handler a client registers with register_action; it takes any keywords  *)
(* and returns or raises.                                                  *)
Registered == {"print", "run_command"}
Hooks == {"hook"}

VARIABLES
    tasks,      \* _tasks: id -> ScheduledTask, or NoTask
    jobs,       \* ids with a job in self._scheduler
    results,    \* _results
    file,       \* the snapshot file: id -> task dict, or NoTask
    handlers,   \* _event_handlers: event name -> list of task ids
    actions,    \* _actions: the names that have a handler
    disk,       \* the file system: "ok", or "failing" (writes raise OSError)
    workflows,  \* _workflows: workflow id -> steps, or <<>> when absent
    stack,      \* per caller: the frames of the entry point it awaits
    ret,        \* per caller: the value the last finished _execute_task returned
    phase,      \* per caller: "idle", "busy", "returned", "raised"
    out,        \* per caller: what the entry point returned (a list, an id)
    trace,      \* per caller: what the running entry point has done so far
    pre         \* per caller: store and log length when the entry point was called

vars == <<tasks, jobs, results, file, handlers, workflows, actions, disk, stack, ret, phase, out, trace, pre>>
engine == <<tasks, jobs, results, file, handlers, workflows, actions, disk>>
caller == <<stack, ret, phase, out, trace, pre>>

(* ------------------------------------------------------------- the store *)
Present(ts, id) == id \in TaskIds /\ ts[id] # NoTask

(* TriggerType.value and TriggerType(value); datetime.isoformat and        *)
(* datetime.fromisoformat; None is written as null                         *)
value(tt) == <<"value", tt>>
TriggerType(v) == v[2]
Null == <<"null", Never>>
isoformat(ts) == <<"iso", ts>>
fromisoformat(str) == str[2]

(* ScheduledTask.to_dict: the retry policy and next_run are not written.   *)
to_dict(t) ==
    [trigger_type |-> value(t.trigger_type), trigger_config |-> t.trigger_config,
     action |-> t.action, event_data |-> t.event_data, enabled |-> t.enabled,
     last_run |-> IF t.last_run # Never THEN isoformat(t.last_run) ELSE Null,
     run_count |-> t.run_count, max_runs |-> t.max_runs,
     tags |-> t.tags, dependencies |-> t.dependencies]

(* _save_tasks: the whole task map is written.                             *)
Snapshot(ts) == [id \in TaskIds |-> IF ts[id] = NoTask THEN NoTask ELSE to_dict(ts[id])]

(* _create_trigger: a trigger for cron, interval and date, None otherwise. *)
HasTriggerM(t) == t.trigger_type \in {"cron", "interval", "date", "startup"}
HasTrigger(t) == t.trigger_type \in {"cron", "interval", "date"}

(* _schedule_task: add_job(..., id=task.id, replace_existing=True).        *)
Scheduled(js, id, t) ==
    IF t.enabled /\ HasTrigger(t) THEN js \cup {id} ELSE js

(* _save_tasks: the whole task map is written; a write that fails leaves   *)
(* the file as it was or cut short, and a file cut short loads as no tasks *)
Written(ts) ==
    IF disk = "ok" THEN {Snapshot(ts)}
    ELSE {file, [id \in TaskIds |-> NoTask]}
SaveM(ts) ==
    file' \in {f \in [TaskIds -> {file[id] : id \in TaskIds} \cup {Snapshot(ts)[id] : id \in TaskIds}] :
                \A id \in TaskIds : f[id] \in {file[id], Snapshot(ts)[id]}}
Save(ts) == file' \in Written(ts)

(* _schedule_task, lines 397-400: task.next_run = job.next_run_time        *)
Timed(t) == IF t.enabled /\ HasTrigger(t) THEN [t EXCEPT !.next_run = Later] ELSE t

(* Python truth value of max_runs, then the comparison with run_count.     *)
CapReachedM(t) == t.max_runs # NoLimit /\ t.max_runs # 0 /\ t.run_count > t.max_runs
CapReached(t) == t.max_runs # NoLimit /\ t.max_runs # 0 /\ t.run_count >= t.max_runs

(* the retry test of the except branch                                     *)
RetryAllowedM(t) == t.retry_on_fail /\ t.retry_count > 1
RetryAllowedAtZero(t) == t.retry_on_fail /\ t.retry_count >= 0
RetryAllowed(t) == t.retry_on_fail /\ t.retry_count > 0

(* self._results.append(result), then the trim                             *)
AppendResultM(log, r) ==
    LET l == Append(log, r) IN
    IF Len(l) > ResultCap THEN SubSeq(l, 1, ResultKeep) ELSE l

AppendResult(log, r) ==
    LET l == Append(log, r) IN
    IF Len(l) > ResultCap THEN SubSeq(l, Len(l) - ResultKeep + 1, Len(l)) ELSE l

(* --------------------------------------------------------------- frames *)
Frame(kind, id, pc, i, data, acc) ==
    [kind |-> kind, id |-> id, pc |-> pc, i |-> i, data |-> data, acc |-> acc]

ExecFrame(id, by) == Frame("exec", id, "start", 1, by, <<>>)

Top(p) == stack[p][Len(stack[p])]
Below(p) == SubSeq(stack[p], 1, Len(stack[p]) - 1)
Running(p, kind, pc) ==
    /\ phase[p] = "busy"
    /\ stack[p] # <<>>
    /\ Top(p).kind = kind
    /\ Top(p).pc = pc

Ev(ev, task, x) == [ev |-> ev, task |-> task, x |-> x]
Log(p, e) == trace' = [trace EXCEPT ![p] = Append(@, e)]
NoPre == [tasks |-> [id \in TaskIds |-> NoTask], n |-> 0, log |-> <<>>]

(* the frame on top returns v to the frame below it, or to the caller      *)
PopWith(p, v) ==
    /\ stack' = [stack EXCEPT ![p] = Below(p)]
    /\ ret' = [ret EXCEPT ![p] = v]
    /\ phase' = [phase EXCEPT ![p] = IF Len(stack[p]) = 1 THEN "returned" ELSE "busy"]

(* an exception leaves the frame on top: it is caught by the nearest       *)
(* _execute_task frame below, which awaits a dependency inside its try     *)
(* block (line 469); emit_event, run_workflow and start catch nothing, and *)
(* with no such frame the exception reaches the caller                     *)
Catchers(p) == {k \in 1 .. (Len(stack[p]) - 1) : stack[p][k].kind = "exec"}
Raise(p) ==
    IF Catchers(p) = {} THEN
        /\ stack' = [stack EXCEPT ![p] = <<>>]
        /\ ret' = [ret EXCEPT ![p] = NoResult]
        /\ phase' = [phase EXCEPT ![p] = "raised"]
    ELSE
        LET h == CHOOSE k \in Catchers(p) : \A j \in Catchers(p) : j <= k IN
        /\ stack' = [stack EXCEPT ![p] = [SubSeq(@, 1, h) EXCEPT ![h].pc = "except"]]
        /\ UNCHANGED <<ret, phase>>

(* after _save_tasks: the frame returns v, or the failed write raises      *)
Leave(p, v) == IF disk = "ok" THEN PopWith(p, v) ELSE Raise(p)

(* ----------------------------------------------------------------- Init *)
Init ==
    /\ tasks = [id \in TaskIds |-> NoTask]
    /\ jobs = {}
    /\ results = <<>>
    /\ file = [id \in TaskIds |-> NoTask]
    /\ handlers = [e \in Events |-> <<>>]
    /\ actions = Registered
    /\ disk = "ok"
    /\ workflows = [w \in WfIds |-> NoWorkflow]
    /\ stack = [p \in Procs |-> <<>>]
    /\ ret = [p \in Procs |-> NoResult]
    /\ phase = [p \in Procs |-> "idle"]
    /\ out = [p \in Procs |-> <<>>]
    /\ trace = [p \in Procs |-> <<>>]
    /\ pre = [p \in Procs |-> NoPre]

(* ------------------------------------------------------ task management *)
Quiet == \A p \in Procs : phase[p] = "idle"

(* ScheduledTask(...): the fields the engine reads                         *)
Task(tt, act, en, mr, rof, rc, deps) ==
    [trigger_type |-> tt, trigger_config |-> "cfg", action |-> act,
     event_data |-> Absent, enabled |-> en,
     last_run |-> Never, next_run |-> Never, run_count |-> 0, max_runs |-> mr,
     retry_on_fail |-> rof, retry_count |-> rc, retry_delay |-> DefaultRetryDelay,
     tags |-> <<>>, dependencies |-> deps]

(* add_task *)
AddTask(id, t) ==
    /\ tasks' = [tasks EXCEPT ![id] = Timed(t)]
    /\ jobs' = Scheduled(jobs, id, t)
    /\ Save(tasks')
    /\ UNCHANGED <<results, handlers, workflows, actions, disk>>

(* remove_task, for an id in the store *)
remove_task(id) ==
    /\ Present(tasks, id)
    /\ tasks' = [tasks EXCEPT ![id] = NoTask]
    /\ jobs' = jobs \ {id}
    /\ Save(tasks')
    /\ UNCHANGED <<results, handlers, workflows, actions, disk>>

RemoveTask(id) == remove_task(id) /\ UNCHANGED caller

(* enable_task, for an id in the store *)
enable_task(id) ==
    /\ Present(tasks, id)
    /\ tasks' = [tasks EXCEPT ![id] = Timed([@ EXCEPT !.enabled = TRUE])]
    /\ jobs' = Scheduled(jobs, id, tasks'[id])
    /\ Save(tasks')
    /\ UNCHANGED <<results, handlers, workflows, actions, disk>>

EnableTask(id) == enable_task(id) /\ UNCHANGED caller

(* disable_task, as a state change: called by callers and by _execute_task *)
disable_task(id) ==
    /\ tasks' = [tasks EXCEPT ![id].enabled = FALSE]
    /\ jobs' = jobs \ {id}
    /\ Save(tasks')

DisableTask(id) ==
    /\ Present(tasks, id)
    /\ disable_task(id)
    /\ UNCHANGED <<results, handlers, workflows, actions, disk, caller>>

(* ------------------------------------------------------- _execute_task *)
(* lines 434-450: the task lookup, the run cap, the start of an attempt    *)
ExecStart(p) ==
    /\ Running(p, "exec", "start")
    /\ LET f == Top(p) IN
       IF ~Present(tasks, f.id) THEN
            /\ PopWith(p, NoResult)
            /\ Log(p, Ev("absent", f.id, f.data))
            /\ UNCHANGED <<tasks, jobs, file>>
       ELSE IF CapReached(tasks[f.id]) THEN
            /\ disable_task(f.id)
            /\ Leave(p, NoResult)
            /\ Log(p, Ev("cap", f.id, f.data))
       ELSE
            /\ stack' = [stack EXCEPT ![p][Len(stack[p])].pc = "deps"]
            /\ Log(p, Ev("begin", f.id, f.data))
            /\ UNCHANGED <<tasks, jobs, file, ret, phase>>
    /\ UNCHANGED <<results, handlers, workflows, actions, disk, out, pre>>

(* lines 455-456: the dependency is run first when it is in the store and  *)
(* has never run                                                           *)
NeedsRunM(ts, dep) == Present(ts, dep) /\ ts[dep].last_run = Never /\ ts[dep].enabled
NeedsRun(ts, dep) == Present(ts, dep) /\ ts[dep].last_run = Never

(* lines 454-457: one turn of the loop over task.dependencies              *)
ExecDeps(p) ==
    /\ Running(p, "exec", "deps")
    /\ LET f == Top(p)
           deps == tasks[f.id].dependencies
           n == Len(stack[p])
       IN  IF f.i > Len(deps) THEN
                stack' = [stack EXCEPT ![p][n].pc = "action"]
           ELSE IF NeedsRun(tasks, deps[f.i]) THEN
                stack' = [stack EXCEPT ![p] =
                            Append([@ EXCEPT ![n].i = f.i + 1], ExecFrame(deps[f.i], "dep"))]
           ELSE
                stack' = [stack EXCEPT ![p][n].i = f.i + 1]
    /\ UNCHANGED <<engine, ret, phase, out, trace, pre>>

(* lines 484-485: task.last_run = start_time; task.run_count += 1          *)
RanM(t) == [t EXCEPT !.run_count = @ + 1]
Ran(t) == [t EXCEPT !.last_run = Now, !.run_count = @ + 1]

(* lines 444-448: TaskResult(task_id, status=RUNNING, start_time), with    *)
(* end_time None; lines 464-472 set its status and error                   *)
TaskResult(id, status, error) ==
    [task_id |-> id, status |-> status, error |-> error, end_time |-> Never]

(* line 480: result.end_time = datetime.now()                              *)
StampM(r) == r
Stamp(r) == [r EXCEPT !.end_time = Now]

(* lines 480-496: the attempt is finalized and its result returned         *)
Finalize(p, status, error) ==
    LET id == Top(p).id
        r == Stamp(TaskResult(id, status, error))
    IN  /\ tasks' = [tasks EXCEPT ![id] = Ran(@)]
        /\ results' = AppendResult(results, r)
        /\ Save(tasks')
        /\ Log(p, Ev("append", id, status))
        /\ Leave(p, r)
        /\ UNCHANGED jobs

(* line 467: result.error = f"Nieznana akcja: {task.action}"               *)
UnknownM(name) == "Nieznana akcja"
Unknown(name) == "Nieznana akcja: " \o name

(* lines 460-467: the action is looked up and its handler called           *)
ExecAction(p) ==
    /\ Running(p, "exec", "action")
    /\ LET f == Top(p) IN
       IF tasks[f.id].action \in actions THEN
            /\ stack' = [stack EXCEPT ![p][Len(stack[p])].pc = "await"]
            /\ Log(p, Ev("invoke", f.id, tasks[f.id].event_data))
            /\ UNCHANGED <<tasks, jobs, results, file, ret, phase>>
       ELSE Finalize(p, "failed", Unknown(tasks[f.id].action))
    /\ UNCHANGED <<handlers, workflows, actions, disk, out, pre>>

(* what a call of the handler may do with the parameters it is given       *)
(* line 462, the call with action_params as keywords: a built-in handler  *)
(* given the keyword event_data raises TypeError before its body runs      *)
MayReturn(t) == t.action \in Hooks \/ t.event_data = Absent
MayRaise(t) == t.action \in Hooks \/ t.action = "run_command" \/ t.event_data # Absent

(* lines 462-464: the handler returned                                     *)
ActionReturns(p) ==
    /\ Running(p, "exec", "await")
    /\ MayReturn(tasks[Top(p).id])
    /\ Finalize(p, "completed", "")
    /\ UNCHANGED <<handlers, workflows, actions, disk, out, pre>>

(* line 476: task.retry_count -= 1                                         *)
SpentM(t) == t
Spent(t) == [t EXCEPT !.retry_count = @ - 1]

(* lines 469-477: the handler raised; the retry budget is spent or the     *)
(* attempt is finalized as failed                                          *)
Except(p) ==
    /\ LET id == Top(p).id IN
       IF RetryAllowed(tasks[id]) THEN
            /\ tasks' = [tasks EXCEPT ![id] = Spent(@)]
            /\ stack' = [stack EXCEPT ![p][Len(stack[p])].pc = "sleep"]
            /\ Log(p, Ev("sleep", id, "raised"))
            /\ UNCHANGED <<jobs, results, file, ret, phase>>
       ELSE Finalize(p, "failed", "raised")
    /\ UNCHANGED <<handlers, workflows, actions, disk, out, pre>>

ActionRaises(p) ==
    /\ Running(p, "exec", "await")
    /\ MayRaise(tasks[Top(p).id])
    /\ Except(p)

(* line 469: the dispatch of a dependency raised inside the try block      *)
DepRaised(p) ==
    /\ Running(p, "exec", "except")
    /\ Except(p)

(* line 478: after the sleep the frame returns what a new call of          *)
(* _execute_task for the same id returns                                   *)
RetryWake(p) ==
    /\ Running(p, "exec", "sleep")
    /\ stack' = [stack EXCEPT ![p][Len(stack[p])] = ExecFrame(Top(p).id, "retry")]
    /\ UNCHANGED trace
    /\ UNCHANGED <<engine, ret, phase, out, pre>>

Exec(p) ==
    \/ ExecStart(p)
    \/ ExecDeps(p)
    \/ ExecAction(p)
    \/ ActionReturns(p)
    \/ ActionRaises(p)
    \/ RetryWake(p)

(* ----------------------------------------------------------- entry points *)
(* a caller calls an entry point; e is what it calls, kept for the record   *)
Room(n) ==
    \/ n < MaxResults
    \/ n >= ResultCap - MaxResults
    \/ (n >= ResultKeep /\ n < ResultKeep + MaxResults)

Call(p, frame, e) ==
    /\ phase[p] = "idle"
    /\ Room(Len(results))
    /\ stack' = [stack EXCEPT ![p] = <<frame>>]
    /\ phase' = [phase EXCEPT ![p] = "busy"]
    /\ trace' = [trace EXCEPT ![p] = <<e>>]
    /\ ret' = [ret EXCEPT ![p] = NoResult]
    /\ out' = [out EXCEPT ![p] = <<>>]
    /\ pre' = [pre EXCEPT ![p] = [tasks |-> tasks, n |-> Len(results), log |-> results]]

(* the job of task id fires: the scheduler calls _execute_task(id), unless *)
(* max_instances calls made by this job are still running                  *)
Instances(id) ==
    {q \in Procs : /\ phase[q] = "busy" /\ trace[q] # <<>>
                   /\ trace[q][1] = Ev("fire", id, "")}

Fire(p, id) ==
    /\ id \in jobs
    /\ Cardinality(Instances(id)) < max_instances
    /\ Call(p, ExecFrame(id, "timer"), Ev("fire", id, ""))
    /\ UNCHANGED engine

(* the caller takes the outcome of the entry point it awaited              *)
Return(p) ==
    /\ phase[p] \in {"returned", "raised"}
    /\ phase' = [phase EXCEPT ![p] = "idle"]
    /\ stack' = [stack EXCEPT ![p] = <<>>]
    /\ ret' = [ret EXCEPT ![p] = NoResult]
    /\ out' = [out EXCEPT ![p] = <<>>]
    /\ trace' = [trace EXCEPT ![p] = <<>>]
    /\ pre' = [pre EXCEPT ![p] = NoPre]
    /\ UNCHANGED engine

(* create_task: a new ScheduledTask under 8 characters of a fresh uuid,    *)
(* the keyword arguments kw over the defaults of the dataclass             *)
DefaultRetryCount == 3
NoKw == [max_runs |-> NoLimit, retry_count |-> DefaultRetryCount]

CreateTask(p, id, tt, act, kw) ==
    /\ phase[p] = "idle"
    /\ AddTask(id, Task(tt, act, TRUE, kw.max_runs, TRUE, kw.retry_count, <<>>))
    /\ phase' = [phase EXCEPT ![p] = "returned"]
    /\ out' = [out EXCEPT ![p] = <<id>>]
    /\ trace' = [trace EXCEPT ![p] = <<Ev("create_task", id, "")>>]
    /\ UNCHANGED <<stack, ret, pre>>

(* ----------------------------------------------------------- persistence *)
(* ScheduledTask.from_dict: the fields that are not in the dict take the   *)
(* defaults of the dataclass                                               *)
from_dictM(d) ==
    [trigger_type |-> TriggerType(d.trigger_type), trigger_config |-> d.trigger_config,
     action |-> d.action, event_data |-> d.event_data, enabled |-> d.enabled,
     last_run |-> Never,
     next_run |-> Never, run_count |-> d.run_count, max_runs |-> d.max_runs,
     retry_on_fail |-> TRUE, retry_count |-> DefaultRetryCount,
     retry_delay |-> DefaultRetryDelay,
     tags |-> d.tags, dependencies |-> d.dependencies]

from_dict(d) ==
    [trigger_type |-> TriggerType(d.trigger_type), trigger_config |-> d.trigger_config,
     action |-> d.action, event_data |-> d.event_data, enabled |-> d.enabled,
     last_run |-> IF d.last_run # Null THEN fromisoformat(d.last_run) ELSE Never,
     next_run |-> Never, run_count |-> d.run_count, max_runs |-> d.max_runs,
     retry_on_fail |-> TRUE, retry_count |-> DefaultRetryCount,
     retry_delay |-> DefaultRetryDelay,
     tags |-> d.tags, dependencies |-> d.dependencies]

(* _load_tasks: every task dict of the file is put in the store            *)
Load(f) == [id \in TaskIds |-> IF f[id] = NoTask THEN NoTask ELSE from_dict(f[id])]

(* an entry of the snapshot that from_dict cannot read: a key it requires  *)
(* (id, name, trigger_type, trigger_config, action) is missing or the      *)
(* trigger type is no TriggerType                                          *)
Malformed == [malformed |-> TRUE]

(* the orders in which the entries of the snapshot list can stand: the     *)
(* file variable keeps the entries by id and no order                      *)
Entries(f) == {id \in TaskIds : f[id] # NoTask}
Orders(f) ==
    {o \in [1 .. Cardinality(Entries(f)) -> Entries(f)] :
        \A i, j \in DOMAIN o : o[i] = o[j] => i = j}

(* _load_tasks, lines 632-641: the entries are put in the store one by one *)
(* inside the try block; the exception of from_dict ends the loop and is   *)
(* logged, with the entries read so far in the store                       *)
ReadSoFar(f, order) ==
    {order[i] : i \in {k \in DOMAIN order : \A j \in 1 .. k : f[order[j]] # Malformed}}
_load_tasks(f, order) ==
    Load([id \in TaskIds |-> IF id \in ReadSoFar(f, order) THEN f[id] ELSE NoTask])

(* the process ends and a new one constructs the engine (__init__, lines   *)
(* 137-161: empty job store, built-in actions, _load_tasks) and starts it  *)
(* (start, lines 254-265: the scheduler, then _run_startup_tasks)          *)
Restart(p) ==
    /\ phase[p] = "idle"
    /\ \A id \in TaskIds : Present(tasks, id) => tasks[id].run_count < MaxRestartRuns
    /\ \E order \in Orders(file) : tasks' = _load_tasks(file, order)
    /\ jobs' = {}
    /\ results' = <<>>
    /\ handlers' = [e \in Events |-> <<>>]
    /\ workflows' = [w \in WfIds |-> NoWorkflow]
    /\ actions' = Registered
    /\ stack' = [stack EXCEPT ![p] = <<Frame("startup", "", "loop", 1, "", <<>>)>>]
    /\ phase' = [phase EXCEPT ![p] = "busy"]
    /\ trace' = [trace EXCEPT ![p] = <<Ev("restart", "", "")>>]
    /\ ret' = [ret EXCEPT ![p] = NoResult]
    /\ out' = [out EXCEPT ![p] = <<>>]
    /\ pre' = [pre EXCEPT ![p] = [tasks |-> tasks, n |-> 0, log |-> <<>>]]
    /\ UNCHANGED <<file, disk>>

(* line 522: task.trigger_type == TriggerType.STARTUP and task.enabled     *)
AtStartup(t) == t.trigger_type = "startup" /\ t.enabled

(* _run_startup_tasks, lines 521-523: one turn of the loop over the store. *)
(* The store keeps no order here, so the tasks are taken in any order;     *)
(* a task that is not dispatched at its turn is passed over silently.      *)
StartupLoop(p) ==
    /\ Running(p, "startup", "loop")
    /\ LET f == Top(p)
           n == Len(stack[p])
           seen == {f.acc[k] : k \in DOMAIN f.acc}
           left == {id \in TaskIds \ seen : Present(tasks, id) /\ AtStartup(tasks[id])}
       IN  IF left = {} THEN
                /\ PopWith(p, NoResult)
                /\ UNCHANGED trace
           ELSE \E id \in left :
                /\ stack' = [stack EXCEPT ![p] =
                                Append([@ EXCEPT ![n].acc = Append(f.acc, id)],
                                       ExecFrame(id, "startup"))]
                /\ Log(p, Ev("turn", id, "dispatch"))
                /\ UNCHANGED <<ret, phase>>
    /\ UNCHANGED <<engine, out, pre>>

(* tasks with a timer and tasks run at startup, with their tags, their     *)
(* cap and their retry policy                                              *)
PersistTasks(id) ==
    IF id = "a" THEN
        {[Task(tt, "run_command", en, mr, rof, rc, <<>>) EXCEPT !.tags = tg] :
            tt \in {"interval", "cron"}, en \in BOOLEAN, mr \in {NoLimit, 2},
            rof \in BOOLEAN, rc \in {1, DefaultRetryCount}, tg \in {<<>>, <<"t">>}}
    ELSE IF id = "b" THEN
        {[Task("startup", act, TRUE, NoLimit, TRUE, 0, deps) EXCEPT !.event_data = d] :
            act \in {"print", "nosuch"}, deps \in {<<>>, <<"a">>}, d \in {Absent, "d1"}}
    ELSE {}

NextPersist ==
    \/ \E id \in TaskIds : \E t \in PersistTasks(id) :
            Quiet /\ ~Present(tasks, id) /\ AddTask(id, t) /\ UNCHANGED caller
    \/ \E id \in TaskIds : Quiet /\ DisableTask(id)
    \/ \E id \in TaskIds : Fire(1, id)
    \/ Quiet /\ Restart(1)
    \/ StartupLoop(1)
    \/ Exec(1)
    \/ Return(1)

SpecPersist == Init /\ [][NextPersist]_vars

(* ------------------------------------------------- a damaged snapshot *)
(* something outside the engine leaves an entry of the file unreadable     *)
Tamper(id) ==
    /\ file[id] \notin {NoTask, Malformed}
    /\ file' = [file EXCEPT ![id] = Malformed]
    /\ UNCHANGED <<tasks, jobs, results, handlers, workflows, actions, disk, caller>>

LoadTasks(id) ==
    IF id = "a" THEN {Task("interval", "run_command", TRUE, NoLimit, FALSE, 0, <<>>)}
    ELSE IF id = "b" THEN {Task("startup", "run_command", TRUE, NoLimit, FALSE, 0, <<>>)}
    ELSE {Task("event", "print", FALSE, NoLimit, FALSE, 0, <<>>)}

NextLoad ==
    \/ \E id \in TaskIds : \E t \in LoadTasks(id) :
            Quiet /\ ~Present(tasks, id) /\ AddTask(id, t) /\ UNCHANGED caller
    \/ \E id \in TaskIds : Quiet /\ Tamper(id)
    \/ Quiet /\ Restart(1)
    \/ StartupLoop(1)
    \/ Exec(1)
    \/ Return(1)

SpecLoad == Init /\ [][NextLoad]_vars

(* ------------------------------------------------- timer-driven dispatch *)
Caps == {NoLimit} \cup (0 .. MaxCap)

FireTasks ==
    {Task("interval", act, en, mr, rof, rc, <<>>) :
        act \in {"print", "run_command", "nosuch"}, en \in BOOLEAN,
        mr \in Caps, rof \in BOOLEAN, rc \in 0 .. MaxRetry}

Next ==
    \/ \E t \in FireTasks : Quiet /\ ~Present(tasks, "a") /\ AddTask("a", t) /\ UNCHANGED caller
    \/ \E id \in TaskIds : Quiet /\ RemoveTask(id)
    \/ \E id \in TaskIds : Quiet /\ EnableTask(id)
    \/ \E id \in TaskIds : Quiet /\ DisableTask(id)
    \/ \E act \in {"print", "run_command", "nosuch"}, kw \in {NoKw, [NoKw EXCEPT !.max_runs = 1]} :
            ~Present(tasks, "a") /\ CreateTask(1, "a", "interval", act, kw)
    \/ \E id \in TaskIds : Fire(1, id)
    \/ Exec(1)
    \/ Return(1)

Spec == Init /\ [][Next]_vars

(* ------------------------------------------------- a long-running engine *)
(* the engine after ResultCap - 2 firings that all completed, every        *)
(* seventh one a firing of "b"                                             *)
LongRun == ResultCap - 2
Filled(n) ==
    [i \in 1 .. n |->
        [task_id |-> IF i % 7 = 0 THEN "b" ELSE "a", status |-> "completed", error |-> "", end_time |-> Now]]
Fired7(n, id) == IF id = "b" THEN n \div 7 ELSE n - (n \div 7)
LongTask(id) ==
    [Timed(Task("interval", IF id = "a" THEN "run_command" ELSE "print",
                TRUE, NoLimit, TRUE, IF id = "a" THEN 1 ELSE 0, <<>>))
        EXCEPT !.last_run = Now, !.run_count = Fired7(LongRun, id)]

InitLog ==
    /\ tasks = [id \in TaskIds |-> IF id \in {"a", "b"} THEN LongTask(id) ELSE NoTask]
    /\ jobs = {"a", "b"}
    /\ results = Filled(LongRun)
    /\ file = Snapshot(tasks)
    /\ handlers = [e \in Events |-> <<>>]
    /\ actions = Registered
    /\ disk = "ok"
    /\ workflows = [w \in WfIds |-> NoWorkflow]
    /\ stack = [p \in Procs |-> <<>>]
    /\ ret = [p \in Procs |-> NoResult]
    /\ phase = [p \in Procs |-> "idle"]
    /\ out = [p \in Procs |-> <<>>]
    /\ trace = [p \in Procs |-> <<>>]
    /\ pre = [p \in Procs |-> NoPre]

NextLog ==
    \/ \E id \in TaskIds : Fire(1, id)
    \/ Exec(1)
    \/ Return(1)

SpecLog == InitLog /\ [][NextLog]_vars

(* ------------------------------------------------ dispatch with dependencies *)
(* "c" depends on "a" and "b", "a" may depend on "b"; "a" and "b" may have  *)
(* a job of their own and so may have run before "c" fires                 *)
DepTasks(id) ==
    IF id = "c" THEN
        {Task("interval", "run_command", TRUE, NoLimit, TRUE, rc, deps) :
            rc \in 0 .. 1, deps \in {<<"a", "b">>, <<"b", "a">>}}
    ELSE IF id = "a" THEN
        {Task(tt, act, en, NoLimit, TRUE, 1, deps) :
            tt \in {"interval", "event"}, act \in {"run_command", "nosuch"},
            en \in BOOLEAN, deps \in {<<>>, <<"b">>}}
    ELSE
        {Task("event", act, en, NoLimit, TRUE, 1, <<>>) :
            act \in {"run_command", "nosuch"}, en \in BOOLEAN}

NextDeps ==
    \/ \E id \in TaskIds : \E t \in DepTasks(id) :
            Quiet /\ ~Present(tasks, id) /\ AddTask(id, t) /\ UNCHANGED caller
    \/ \E id \in TaskIds : Fire(1, id)
    \/ Exec(1)
    \/ Return(1)

SpecDeps == Init /\ [][NextDeps]_vars

(* the event loop resumes a coroutine that can go on: every handler call   *)
(* returns or raises in the end and every retry sleep ends                 *)
LiveDeps == SpecDeps /\ WF_vars(Exec(1))

(* ------------------------------------------------------------- events *)
(* register_action (lines 707-709)                                         *)
RegisterAction(name) ==
    /\ actions' = actions \cup {name}
    /\ UNCHANGED <<tasks, jobs, results, file, handlers, workflows, disk, caller>>

(* on_event: the id is appended, known to the store or not                 *)
OnEvent(e, id) ==
    /\ Len(handlers[e]) < MaxSubs
    /\ handlers' = [handlers EXCEPT ![e] = Append(@, id)]
    /\ UNCHANGED <<tasks, jobs, results, file, workflows, actions, disk, caller>>

(* emit_event is called                                                    *)
EmitEvent(p, e, data) ==
    /\ Call(p, Frame("emit", e, "loop", 1, data, <<>>), Ev("emit_event", e, data))
    /\ UNCHANGED engine

(* line 514: task and task.enabled                                         *)
Subscribed(ts, id) == Present(ts, id) /\ ts[id].enabled

(* line 516: task.action_params["event_data"] = data                       *)
InjectM(t, data) == IF t.event_data = Absent THEN [t EXCEPT !.event_data = data] ELSE t
Inject(t, data) == [t EXCEPT !.event_data = data]

(* line 512: the loop over the subscriber list is over                     *)
EmitOverM(p) == Top(p).i > Len(handlers[Top(p).id]) \/ ret[p].status = "failed"
EmitOver(p) == Top(p).i > Len(handlers[Top(p).id])

(* lines 512-517: one turn of the loop over the subscribers                *)
EmitLoop(p) ==
    /\ Running(p, "emit", "loop")
    /\ LET f == Top(p)
           n == Len(stack[p])
       IN  IF EmitOver(p) THEN
                /\ PopWith(p, NoResult)
                /\ UNCHANGED <<tasks, trace>>
           ELSE LET id == handlers[f.id][f.i] IN
                IF Subscribed(tasks, id) THEN
                    /\ tasks' = [tasks EXCEPT ![id] = Inject(@, f.data)]
                    /\ stack' = [stack EXCEPT ![p] =
                                    Append([@ EXCEPT ![n].i = f.i + 1], ExecFrame(id, "emit"))]
                    /\ Log(p, Ev("turn", id, "dispatch"))
                    /\ UNCHANGED <<ret, phase>>
                ELSE
                    /\ stack' = [stack EXCEPT ![p][n].i = f.i + 1]
                    /\ Log(p, Ev("turn", id, "skip"))
                    /\ UNCHANGED <<tasks, ret, phase>>
    /\ UNCHANGED <<jobs, results, file, handlers, workflows, actions, disk, out, pre>>

EventTasks(id) ==
    IF id = "a" THEN
        {Task("event", act, en, mr, TRUE, 1, <<>>) :
            act \in {"print", "hook"}, en \in BOOLEAN, mr \in {NoLimit, 1}}
    ELSE IF id = "b" THEN
        {Task("event", act, en, NoLimit, TRUE, 0, <<>>) :
            act \in {"run_command", "hook"}, en \in BOOLEAN}
    ELSE {}

NextEvent ==
    \/ \E id \in TaskIds : \E t \in EventTasks(id) :
            Quiet /\ ~Present(tasks, id) /\ AddTask(id, t) /\ UNCHANGED caller
    \/ \E h \in Hooks : Quiet /\ h \notin actions /\ RegisterAction(h)
    \/ \E id \in TaskIds : Quiet /\ OnEvent("x", id)
    \/ \E d \in Data : Len(results) < MaxEmitLog /\ EmitEvent(1, "x", d)
    \/ EmitLoop(1)
    \/ Exec(1)
    \/ Return(1)

SpecEvent == Init /\ [][NextEvent]_vars

(* ------------------------------------------------------ a failing disk *)
DiskFails == disk = "ok" /\ disk' = "failing" /\ UNCHANGED <<tasks, jobs, results, file, handlers, workflows, actions, caller>>
DiskRepaired == disk = "failing" /\ disk' = "ok" /\ UNCHANGED <<tasks, jobs, results, file, handlers, workflows, actions, caller>>

(* how a call of add_task, remove_task, enable_task or disable_task ends   *)
(* for its caller: _save_tasks is their last statement but the log line    *)
(* and the return, and nothing catches what it raises                      *)
Outcome(p, op, id) ==
    /\ phase[p] = "idle"
    /\ phase' = [phase EXCEPT ![p] = IF disk = "ok" THEN "returned" ELSE "raised"]
    /\ trace' = [trace EXCEPT ![p] = <<Ev(op, id, "")>>]
    /\ UNCHANGED <<stack, ret, out, pre>>

DiskTasks(id) ==
    IF id = "a" THEN
        {Task("interval", "run_command", TRUE, mr, TRUE, 1, <<"b">>) : mr \in {NoLimit, 1}}
    ELSE IF id = "b" THEN {Task("event", "print", TRUE, NoLimit, TRUE, 0, <<>>)}
    ELSE {}

NextDisk ==
    \/ DiskFails
    \/ Quiet /\ DiskRepaired
    \/ \E id \in TaskIds : \E t \in DiskTasks(id) :
            ~Present(tasks, id) /\ AddTask(id, t) /\ Outcome(1, "add_task", id)
    \/ \E id \in {"a"} : remove_task(id) /\ Outcome(1, "remove_task", id)
    \/ \E id \in {"a"} : enable_task(id) /\ Outcome(1, "enable_task", id)
    \/ \E id \in {"a"} :
            /\ Present(tasks, id) /\ disable_task(id) /\ Outcome(1, "disable_task", id)
            /\ UNCHANGED <<results, handlers, workflows, actions, disk>>
    \/ \E id \in {"b"} : Quiet /\ Len(handlers["x"]) < MaxDiskSubs /\ OnEvent("x", id)
    \/ \E id \in TaskIds : Len(results) < MaxEmitLog /\ Fire(1, id)
    \/ Len(results) < MaxEmitLog /\ EmitEvent(1, "x", "d1")
    \/ EmitLoop(1)
    \/ Exec(1)
    \/ DepRaised(1)
    \/ Return(1)

SpecDisk == Init /\ [][NextDisk]_vars

(* ------------------------------------------- scheduling by trigger type *)
(* tasks of every trigger type, added under an id that may be in use       *)
SchedTasks(id) ==
    IF id = "a" THEN
        {Task(tt, "run_command", en, 1, TRUE, 1, <<>>) : tt \in TriggerTypes, en \in BOOLEAN}
    ELSE IF id = "b" THEN
        {Task(tt, "print", en, NoLimit, TRUE, 0, <<>>) : tt \in {"startup", "cron"}, en \in BOOLEAN}
    ELSE {}

NextSched ==
    \/ \E id \in TaskIds : \E t \in SchedTasks(id) : AddTask(id, t) /\ Outcome(1, "add_task", id)
    \/ \E id \in TaskIds : enable_task(id) /\ Outcome(1, "enable_task", id)
    \/ \E id \in TaskIds : Quiet /\ DisableTask(id)
    \/ \E id \in TaskIds : Quiet /\ RemoveTask(id)
    \/ \E id \in {"a"} : Fire(1, id)
    \/ Exec(1)
    \/ Return(1)

SpecSched == Init /\ [][NextSched]_vars

(* ------------------------------------------------- overlapping dispatches *)
(* "a" runs a command on a timer; "c" runs one on a timer after "b", which *)
(* runs one after "a".  Callers 1 to 3 are the timer of "a", caller 4 the  *)
(* timer of "c"; the dispatches start while the log is short               *)
ConcTasks(id) ==
    IF id = "a" THEN {Task("interval", "run_command", TRUE, NoLimit, FALSE, 0, <<>>)}
    ELSE IF id = "b" THEN {Task("event", "run_command", TRUE, NoLimit, FALSE, 0, <<"a">>)}
    ELSE {Task("interval", "run_command", TRUE, NoLimit, FALSE, 0, <<"b">>)}

TimerOf(p) == IF p = 4 THEN "c" ELSE "a"

NextConc ==
    \/ \E id \in TaskIds : \E t \in ConcTasks(id) :
            Quiet /\ ~Present(tasks, id) /\ AddTask(id, t) /\ UNCHANGED caller
    \/ \E p \in Procs : Len(results) < MaxConcLog /\ Fire(p, TimerOf(p))
    \/ \E p \in Procs : ExecStart(p)
    \/ \E p \in Procs : ExecDeps(p)
    \/ \E p \in Procs : ExecAction(p)
    \/ \E p \in Procs : ActionReturns(p)
    \/ \E p \in Procs : ActionRaises(p)
    \/ \E p \in Procs : Return(p)

SpecConc == Init /\ [][NextConc]_vars

(* --------------------------------------- overlapping dispatches of a task *)
(* "a" runs a command on a timer, with or without a run cap and a retry;   *)
(* "b" and "c" run one on a timer after "a", which may not have run yet.   *)
(* Two callers stand for the firings that overlap.                         *)
Callers == {1, 2}

OverlapTasks(id) ==
    IF id = "a" THEN
        {Task("interval", "run_command", TRUE, mr, TRUE, rc, <<>>) : mr \in {NoLimit, 1}, rc \in 0 .. 1}
    ELSE IF id = "b" THEN {Task("interval", "run_command", TRUE, NoLimit, TRUE, 1, <<"a">>)}
    ELSE {Task("interval", "print", TRUE, NoLimit, FALSE, 0, <<"a">>)}

NextOverlap ==
    \/ \E id \in TaskIds : \E t \in OverlapTasks(id) :
            Quiet /\ ~Present(tasks, id) /\ AddTask(id, t) /\ UNCHANGED caller
    \/ \E p \in Callers, id \in TaskIds : Len(results) < MaxOverlapLog /\ Fire(p, id)
    \/ \E p \in Callers : Exec(p)
    \/ \E p \in Callers : Return(p)

SpecOverlap == Init /\ [][NextOverlap]_vars

(* ---------------------------------------------------------- workflows *)
(* a selector of a step: absent (None), a string or an integer             *)
SelNone == [k |-> "none", s |-> "", n |-> 0]
SelStr(s) == [k |-> "str", s |-> s, n |-> 0]
SelInt(n) == [k |-> "int", s |-> "", n |-> n]

Step(task_id, on_success, on_failure, named, name) ==
    [task_id |-> task_id, on_success |-> on_success, on_failure |-> on_failure,
     named |-> named, name |-> name]

(* create_workflow *)
CreateWorkflow(w, steps) ==
    /\ ~workflows[w].present
    /\ workflows' = [workflows EXCEPT ![w] = [present |-> TRUE, steps |-> steps]]
    /\ UNCHANGED <<tasks, jobs, results, file, handlers, actions, disk, caller>>

(* run_workflow is called                                                  *)
RunWorkflow(p, w) ==
    /\ Call(p, Frame("wf", w, "loop", 0, "", <<>>), Ev("run_workflow", w, ""))
    /\ UNCHANGED engine

(* lines 561-564: the selector chosen after a step                         *)
SelectedM(step, r) == step.on_success
Selected(step, r) ==
    IF r.status = "completed" THEN step.on_success ELSE step.on_failure

(* lines 566-579: where the selector sends the step pointer                *)
Stop == [stop |-> TRUE, cur |-> 0]
Goto(i) == [stop |-> FALSE, cur |-> i]
Matches(steps, name) == {i \in 1 .. Len(steps) : steps[i].named /\ steps[i].name = name}
Lowest(S) == CHOOSE i \in S : \A j \in S : i <= j
Highest(S) == CHOOSE i \in S : \A j \in S : i >= j

NextStepM(steps, cur, sel) ==
    IF sel.k = "none" \/ (sel.k = "str" /\ sel.s = "stop") THEN Stop
    ELSE IF sel.k = "str" /\ sel.s = "next" THEN Goto(cur + 1)
    ELSE IF sel.k = "int" THEN Goto(sel.n)
    ELSE IF Matches(steps, sel.s) = {} THEN Stop
    ELSE Goto(Highest(Matches(steps, sel.s)) - 1)

NextStepStay(steps, cur, sel) ==
    IF sel.k = "none" \/ (sel.k = "str" /\ sel.s = "stop") THEN Stop
    ELSE IF sel.k = "str" /\ sel.s = "next" THEN Goto(cur)
    ELSE IF sel.k = "int" THEN Goto(sel.n)
    ELSE IF Matches(steps, sel.s) = {} THEN Stop
    ELSE Goto(Lowest(Matches(steps, sel.s)) - 1)

NextStep(steps, cur, sel) ==
    IF sel.k = "none" \/ (sel.k = "str" /\ sel.s = "stop") THEN Stop
    ELSE IF sel.k = "str" /\ sel.s = "next" THEN Goto(cur + 1)
    ELSE IF sel.k = "int" THEN Goto(sel.n)
    ELSE IF Matches(steps, sel.s) = {} THEN Stop
    ELSE Goto(Lowest(Matches(steps, sel.s)) - 1)

WfEv(ev, task, x, n, sel) == [ev |-> ev, task |-> task, x |-> x, n |-> n, sel |-> sel]

(* run_workflow returns the list v                                         *)
WfReturn(p, v) ==
    /\ stack' = [stack EXCEPT ![p] = <<>>]
    /\ phase' = [phase EXCEPT ![p] = "returned"]
    /\ out' = [out EXCEPT ![p] = v]

(* lines 547-558: the workflow lookup, the loop test, the step's dispatch  *)
WfLoop(p) ==
    /\ Running(p, "wf", "loop")
    /\ LET f == Top(p)
           wf == workflows[f.id]
       IN  IF ~wf.present THEN
                WfReturn(p, <<>>) /\ UNCHANGED trace
           ELSE IF ~(f.i < Len(wf.steps)) THEN
                WfReturn(p, f.acc) /\ UNCHANGED trace
           ELSE
                /\ Len(f.acc) < MaxWfSteps
                /\ stack' = [stack EXCEPT ![p] =
                                <<[f EXCEPT !.pc = "ret"], ExecFrame(wf.steps[f.i + 1].task_id, "wf")>>]
                /\ Log(p, WfEv("step", wf.steps[f.i + 1].task_id, "", f.i, SelNone))
                /\ UNCHANGED <<phase, out>>
    /\ UNCHANGED <<engine, ret, pre>>

(* lines 559-579: the result is kept and read; None has no status          *)
WfRet(p) ==
    /\ Running(p, "wf", "ret")
    /\ LET f == Top(p)
           steps == workflows[f.id].steps
           step == steps[f.i + 1]
           r == ret[p]
       IN  IF r = NoResult THEN
                /\ stack' = [stack EXCEPT ![p] = <<>>]
                /\ phase' = [phase EXCEPT ![p] = "raised"]
                /\ Log(p, WfEv("error", step.task_id, "AttributeError", f.i, SelNone))
                /\ UNCHANGED out
           ELSE LET sel == Selected(step, r)
                    to == NextStep(steps, f.i, sel)
                    acc == Append(f.acc, r)
                IN  /\ Log(p, WfEv("select", step.task_id, r.status, f.i, sel))
                    /\ IF to.stop THEN WfReturn(p, acc)
                       ELSE /\ stack' = [stack EXCEPT ![p] =
                                    <<[f EXCEPT !.pc = "loop", !.i = to.cur, !.acc = acc]>>]
                            /\ UNCHANGED <<phase, out>>
    /\ UNCHANGED <<engine, ret, pre>>

WfTasks(id) ==
    IF id = "a" THEN
        {Task("event", act, en, mr, TRUE, IF act = "run_command" THEN 1 ELSE 0, <<>>) :
            act \in {"run_command", "nosuch"}, en \in BOOLEAN, mr \in {NoLimit, 1}}
    ELSE IF id = "b" THEN
        {Task("event", act, TRUE, NoLimit, TRUE, 0, <<>>) : act \in {"print", "nosuch"}}
    ELSE {}

(* the workflow of the branching scenario and its variants                 *)
Branching ==
    {<<Step("a", os, of, FALSE, ""), Step("b", SelStr("stop"), SelNone, FALSE, "")>> :
        os \in {SelInt(1), SelStr("next"), SelStr("stop"), SelNone, SelInt(2)},
        of \in {SelStr("stop"), SelNone, SelStr("next"), SelInt(0)}}

(* steps found by name: two steps share the name "n2"                      *)
ByName ==
    {<<Step("a", os, SelStr("stop"), TRUE, "n1"),
       Step("b", SelStr("stop"), SelStr("n3"), TRUE, "n2"),
       Step("a", SelNone, SelNone, TRUE, "n2")>> :
        os \in {SelStr("n2"), SelStr("n1"), SelStr("nx")}}

NextWf ==
    \/ \E id \in TaskIds : \E t \in WfTasks(id) :
            Quiet /\ ~Present(tasks, id) /\ AddTask(id, t) /\ UNCHANGED caller
    \/ \E steps \in Branching \cup ByName : Quiet /\ CreateWorkflow("w", steps)
    \/ RunWorkflow(1, "w")
    \/ WfLoop(1)
    \/ WfRet(1)
    \/ Exec(1)
    \/ Return(1)

SpecWf == Init /\ [][NextWf]_vars

(* the event loop resumes run_workflow and the dispatch it awaits whenever *)
(* they can go on                                                          *)
LiveWf == SpecWf /\ WF_vars(Exec(1)) /\ WF_vars(WfLoop(1)) /\ WF_vars(WfRet(1))

(* ================================================================ claims *)
(* what the entry point caller p is in has done, read off its record       *)
N(p, ev, id) ==
    Cardinality({k \in DOMAIN trace[p] : trace[p][k].ev = ev /\ trace[p][k].task = id})
Entered(p, ev) == trace[p] # <<>> /\ trace[p][1].ev = ev
Subject(p) == trace[p][1].task
Fired(p) == phase[p] = "returned" /\ Entered(p, "fire")
Before(p) == pre[p].tasks[Subject(p)]
After(p) == tasks[Subject(p)]
(* the attempt of the fired task began: it was in the store, not cut off   *)
Began(p) == Fired(p) /\ N(p, "begin", Subject(p)) >= 1
(* every call of the handler raised: each one ended in the retry sleep or  *)
(* in the Failed result of the except branch                               *)
AllRaised(p) ==
    N(p, "invoke", Subject(p)) = N(p, "sleep", Subject(p))
        + (IF ret[p].status = "failed" /\ ret[p].error = "raised" THEN 1 ELSE 0)

(* C1: a dispatch of a task with retry_on_fail and retry_count = k whose   *)
(* handler raises at every call calls the handler k + 1 times, appends one *)
(* TaskResult, Failed, and leaves retry_count at 0.                        *)
C1_RetriesThenOneFailed ==
    \A p \in Procs :
        (/\ Began(p)
         /\ Before(p).retry_on_fail
         /\ Before(p).action \in actions
         /\ AllRaised(p))
        => /\ N(p, "invoke", Subject(p)) = Before(p).retry_count + 1
           /\ Len(results) = pre[p].n + 1
           /\ results[Len(results)] =
                [task_id |-> Subject(p), status |-> "failed", error |-> "raised", end_time |-> Now]
           /\ ret[p] = results[Len(results)]
           /\ After(p).retry_count = 0

C1_Witness ==
    \E p \in Procs :
        /\ Began(p) /\ AllRaised(p)
        /\ Before(p).retry_on_fail /\ Before(p).retry_count = 2
        /\ N(p, "invoke", Subject(p)) = 3
        /\ ret[p].status = "failed"

C9_SetCapAborts ==
    \A p \in Procs :
        (/\ Fired(p) /\ Present(pre[p].tasks, Subject(p))
         /\ Before(p).max_runs # NoLimit
         /\ Before(p).run_count >= Before(p).max_runs)
        => /\ ~After(p).enabled
           /\ Subject(p) \notin jobs
           /\ N(p, "invoke", Subject(p)) = 0
           /\ Len(results) = pre[p].n
           /\ After(p).run_count = Before(p).run_count
           /\ After(p).last_run = Before(p).last_run
           /\ After(p).retry_count = Before(p).retry_count

(* C10: create_task returns a non-empty id that list_tasks() then holds    *)
(* with run_count = 0 and last_run unset; a finished firing of a task      *)
(* below its run cap has raised run_count by 1 and set last_run, whatever  *)
(* the outcome and the number of retries.                                  *)
list_tasks == {id \in TaskIds : Present(tasks, id)}
BelowCap(t) == t.max_runs = NoLimit \/ t.run_count < t.max_runs

C10_CreateThenCountRuns ==
    \A p \in Procs :
        /\ (phase[p] = "returned" /\ Entered(p, "create_task"))
            => /\ Len(out[p]) = 1 /\ out[p][1] # ""
               /\ out[p][1] \in list_tasks
               /\ tasks[out[p][1]].run_count = 0
               /\ tasks[out[p][1]].last_run = Never
        /\ (/\ Fired(p) /\ Present(pre[p].tasks, Subject(p))
            /\ BelowCap(Before(p)))
            => /\ After(p).run_count = Before(p).run_count + 1
               /\ After(p).last_run # Never

C10_Witness ==
    \E p \in Procs :
        /\ Fired(p) /\ Present(pre[p].tasks, Subject(p))
        /\ BelowCap(Before(p))
        /\ Before(p).retry_count = DefaultRetryCount
        /\ N(p, "sleep", Subject(p)) = DefaultRetryCount
        /\ ret[p].status = "failed"
        /\ After(p).run_count = 2

(* C2: when the handler of a task is called, every dependency of the task  *)
(* that is in the store has a last_run, whether it ended Completed or      *)
(* Failed; while the loop over the dependencies runs, those it has passed  *)
(* have one (D1 first, then D2).                                           *)
Passed(p, k) ==
    LET f == stack[p][k] IN
    IF f.pc = "deps" THEN (IF k = Len(stack[p]) THEN f.i - 1 ELSE f.i - 2)
    ELSE IF f.pc = "start" THEN 0
    ELSE Len(tasks[f.id].dependencies)

C2_DependenciesRunFirst ==
    \A p \in Procs : \A k \in DOMAIN stack[p] :
        stack[p][k].kind = "exec" /\ Present(tasks, stack[p][k].id)
        => \A m \in 1 .. Passed(p, k) :
            LET d == tasks[stack[p][k].id].dependencies[m] IN
            Present(tasks, d) => tasks[d].last_run # Never

C2_Witness ==
    \E p \in Procs :
        /\ Running(p, "exec", "await") /\ Len(stack[p]) = 1
        /\ Entered(p, "fire") /\ Subject(p) = "c"
        /\ pre[p].tasks["c"].dependencies = <<"a", "b">>
        /\ Present(pre[p].tasks, "a") /\ pre[p].tasks["a"].last_run = Never
        /\ Present(pre[p].tasks, "b") /\ pre[p].tasks["b"].last_run = Never
        /\ N(p, "sleep", "a") = 1
        /\ results[pre[p].n + 1] = [task_id |-> "a", status |-> "failed", error |-> "raised", end_time |-> Now]
        /\ results[pre[p].n + 2].task_id = "b"
        /\ results[pre[p].n + 2].status = "completed"

(* --- what an emit_event or a run_workflow has done, read off its record  *)
Idx(p, ev) == {k \in DOMAIN trace[p] : trace[p][k].ev = ev}
Rank(p, k) == Cardinality({j \in Idx(p, trace[p][k].ev) : j <= k})
Emitting(p) == Entered(p, "emit_event")
Subs(p) == handlers[trace[p][1].task]
(* the subscriber was enabled when the emit was called and no dispatch of  *)
(* this emit has cut it off at its run cap since                           *)
EnabledAt(p, k, id) ==
    /\ Present(pre[p].tasks, id) /\ pre[p].tasks[id].enabled
    /\ ~\E j \in 1 .. (k - 1) : trace[p][j].ev = "cap" /\ trace[p][j].task = id
Ended(e) == e.ev \in {"append", "cap", "absent"}

(* C5: emit_event takes the subscribers in subscription order, one turn    *)
(* per entry of the list (a task listed twice has two turns), dispatches   *)
(* those that are enabled, starts a turn only when the dispatch of the     *)
(* turn before has ended, and every handler call of a subscriber is made   *)
(* with event_data equal to the data of the emit.                          *)
C5_FanOutInOrder ==
    \A p \in Procs : Emitting(p) =>
        /\ \A k \in Idx(p, "turn") :
            /\ Rank(p, k) <= Len(Subs(p))
            /\ trace[p][k].task = Subs(p)[Rank(p, k)]
            /\ (trace[p][k].x = "dispatch") <=> EnabledAt(p, k, trace[p][k].task)
            /\ (Rank(p, k) > 1 /\ trace[p][k - 1].ev # "turn") => Ended(trace[p][k - 1])
        /\ \A k \in Idx(p, "begin") \cup Idx(p, "cap") :
            \E j \in Idx(p, "turn") :
                /\ j < k /\ trace[p][j].x = "dispatch" /\ trace[p][j].task = trace[p][k].task
                /\ \A i \in Idx(p, "turn") : i < k => i <= j
        /\ \A k \in Idx(p, "invoke") : trace[p][k].x = trace[p][1].x
        /\ phase[p] = "returned" => Cardinality(Idx(p, "turn")) = Len(Subs(p))

C5_Witness ==
    \E p \in Procs :
        /\ Emitting(p) /\ phase[p] = "returned"
        /\ Subs(p) = <<"a", "b", "a">>
        /\ \A k \in Idx(p, "turn") : trace[p][k].x = "dispatch"
        /\ N(p, "invoke", "a") >= 2 /\ N(p, "invoke", "b") = 1
        /\ trace[p][1].x = "d2" /\ pre[p].tasks["a"].event_data = "d1"

(* C6: a subscriber whose dispatch ends Failed does not stop the emit:     *)
(* every later subscriber that is enabled is dispatched; a subscriber that *)
(* is disabled or not in the store is passed over with no dispatch and no  *)
(* TaskResult; emit_event returns.                                         *)
C6_FailureDoesNotBlock ==
    \A p \in Procs : Emitting(p) =>
        /\ phase[p] # "raised"
        /\ \A k \in Idx(p, "turn") :
            trace[p][k].x = "skip" =>
                /\ ~Subscribed(pre[p].tasks, trace[p][k].task)
                    \/ N(p, "cap", trace[p][k].task) > 0
                /\ k < Len(trace[p]) => trace[p][k + 1].ev = "turn"
        /\ phase[p] = "returned" =>
            /\ Len(results) - pre[p].n = Cardinality(Idx(p, "append"))
            /\ \A f \in Idx(p, "append") : trace[p][f].x = "failed" =>
                \A i \in 1 .. Len(Subs(p)) :
                    (\E k \in Idx(p, "turn") : k > f /\ Rank(p, k) = i)
                        \/ (\E k \in Idx(p, "turn") : k < f /\ Rank(p, k) = i)
            /\ \A k \in Idx(p, "turn") :
                EnabledAt(p, k, trace[p][k].task) =>
                    \E j \in Idx(p, "begin") \cup Idx(p, "cap") :
                        j = k + 1 /\ trace[p][j].task = trace[p][k].task

C6_Witness ==
    \E p \in Procs :
        /\ Emitting(p) /\ phase[p] = "returned"
        /\ Subs(p) = <<"a", "c", "b">>
        /\ N(p, "sleep", "a") = 1
        /\ results[pre[p].n + 1] = [task_id |-> "a", status |-> "failed", error |-> "raised", end_time |-> Now]
        /\ \E k \in Idx(p, "turn") : trace[p][k].task = "c" /\ trace[p][k].x = "skip"
        /\ Len(results) = pre[p].n + 2
        /\ results[pre[p].n + 2] = [task_id |-> "b", status |-> "completed", error |-> "", end_time |-> Now]

Working(p) == Entered(p, "run_workflow")
Steps(p) == workflows[trace[p][1].task].steps

(* C4, as claimed: run_workflow and emit_event never end in a raised error *)
(* and run_workflow returns one TaskResult per step it executed.           *)
C4_EntryPointsNeverRaise ==
    \A p \in Procs :
        /\ phase[p] # "raised"
        /\ (phase[p] = "returned" /\ Working(p))
            => Len(out[p]) = Cardinality(Idx(p, "step"))

(* C7: after a step, on_success is the selector taken exactly when the     *)
(* step's TaskResult is Completed, on_failure otherwise; the workflow      *)
(* [A(on_success=1, on_failure="stop"), B(on_success="stop")] returns the  *)
(* results of A and B when A completes and the result of A when A fails.   *)
Scenario ==
    <<Step("a", SelInt(1), SelStr("stop"), FALSE, ""),
      Step("b", SelStr("stop"), SelNone, FALSE, "")>>

C7_BranchOnStatus ==
    \A p \in Procs : Working(p) =>
        /\ \A k \in Idx(p, "select") :
            LET step == Steps(p)[trace[p][k].n + 1] IN
            /\ trace[p][k].x = "completed" => trace[p][k].sel = step.on_success
            /\ trace[p][k].x # "completed" => trace[p][k].sel = step.on_failure
        /\ (/\ Steps(p) = Scenario
            /\ \A id \in {"a", "b"} :
                    Present(pre[p].tasks, id) /\ ~CapReached(pre[p].tasks[id]))
                => phase[p] # "raised"
        /\ (phase[p] = "returned" /\ Steps(p) = Scenario) =>
            /\ Len(out[p]) >= 1 /\ out[p][1].task_id = "a"
            /\ out[p][1].status = "completed" =>
                /\ Len(out[p]) = 2 /\ out[p][2].task_id = "b"
                /\ Cardinality(Idx(p, "step")) = 2
            /\ out[p][1].status = "failed" =>
                /\ Len(out[p]) = 1
                /\ Cardinality(Idx(p, "step")) = 1

C7_Witness ==
    \E p \in Procs :
        /\ Working(p) /\ phase[p] = "returned" /\ Steps(p) = Scenario
        /\ Present(pre[p].tasks, "a") /\ Present(pre[p].tasks, "b")
        /\ Len(out[p]) = 2 /\ out[p][1].status = "completed"
        /\ out[p][2].status = "completed"
        /\ \E k \in Idx(p, "sleep") : trace[p][k].task = "a"

(* C8: the selector taken decides the next step: "stop" or none ends the   *)
(* workflow; "next" moves the pointer from i to i + 1; an integer j sets   *)
(* it to j; another string sets it to the lowest index of a step of that   *)
(* name and ends the workflow when there is none; the workflow ends when   *)
(* the pointer is past the last step.                                      *)
Target(steps, i, sel) ==
    IF sel = SelNone \/ sel = SelStr("stop") THEN -1
    ELSE IF sel = SelStr("next") THEN i + 1
    ELSE IF sel.k = "int" THEN sel.n
    ELSE IF \E j \in 1 .. Len(steps) : steps[j].named /\ steps[j].name = sel.s
         THEN (CHOOSE j \in 1 .. Len(steps) :
                    /\ steps[j].named /\ steps[j].name = sel.s
                    /\ \A h \in 1 .. (j - 1) : ~(steps[h].named /\ steps[h].name = sel.s)) - 1
    ELSE -1

C8_SelectorSemantics ==
    \A p \in Procs : Working(p) =>
        \A k \in Idx(p, "select") :
            LET to == Target(Steps(p), trace[p][k].n, trace[p][k].sel)
                done == phase[p] = "returned" /\ Len(out[p]) = Rank(p, k)
            IN  IF k = Len(trace[p]) THEN
                    IF to = -1 THEN done
                    ELSE IF to >= Len(Steps(p))
                         THEN done \/ (Running(p, "wf", "loop") /\ Top(p).i = to)
                    ELSE Running(p, "wf", "loop") /\ Top(p).i = to
                ELSE
                    /\ to # -1 /\ to < Len(Steps(p))
                    /\ trace[p][k + 1].ev = "step"
                    /\ trace[p][k + 1].n = to
                    /\ trace[p][k + 1].task = Steps(p)[to + 1].task_id

C8_Witness ==
    \E p \in Procs :
        /\ Working(p) /\ phase[p] = "returned" /\ Len(Steps(p)) = 3
        /\ \E k \in Idx(p, "select") :
            /\ trace[p][k].sel = SelStr("n2") /\ trace[p][k].n = 0
            /\ trace[p][k + 1].ev = "step" /\ trace[p][k + 1].n = 1
        /\ Len(out[p]) = 2

(* C11, as claimed: every attempt a dispatch begins, the ones that fail    *)
(* and are retried included, has its TaskResult finalized and appended to  *)
(* the ResultLog exactly once: a finished firing has appended as many      *)
(* results as it began attempts.                                           *)
C11_EveryAttemptFinalized ==
    \A p \in Procs :
        Fired(p) =>
            Cardinality(Idx(p, "append")) = Cardinality(Idx(p, "begin"))

(* the engine has just been constructed from the snapshot file, and the    *)
(* file is the save of the store the earlier engine had                    *)
Reloaded(p) ==
    /\ Entered(p, "restart") /\ Len(trace[p]) = 1
    /\ file = Snapshot(pre[p].tasks)

C13_RetryPolicyRestored ==
    \A p \in Procs : Reloaded(p) =>
        \A id \in TaskIds :
            (Present(tasks, id) /\ Present(pre[p].tasks, id)) =>
                /\ tasks[id].retry_on_fail = pre[p].tasks[id].retry_on_fail
                /\ tasks[id].retry_count = pre[p].tasks[id].retry_count
                /\ tasks[id].retry_delay = pre[p].tasks[id].retry_delay

(* C18, as claimed: every enabled task in the store with an Interval or    *)
(* Cron trigger that is below its run cap has a firing job, also when the  *)
(* store was loaded from the snapshot by a new engine.                     *)
C18_TimedTasksHaveJobs ==
    \A id \in TaskIds :
        (/\ Present(tasks, id) /\ tasks[id].enabled
         /\ tasks[id].trigger_type \in {"interval", "cron"}
         /\ BelowCap(tasks[id]))
            => id \in jobs

(* C14: the ResultLog never holds more than 1000 results; the append that  *)
(* would make it 1001 leaves exactly the 500 most recent results, in their *)
(* order and with the new one last; no result is dropped at another time.  *)
Brief(r) == <<r.task_id, r.status>>
Appended(p) ==
    LET at == Idx(p, "append")
        nth(i) == CHOOSE k \in at : Cardinality({j \in at : j <= k}) = i
    IN  [i \in 1 .. Cardinality(at) |-> <<trace[p][nth(i)].task, trace[p][nth(i)].x>>]
RECURSIVE Kept(_, _)
Kept(log, new) ==
    IF new = <<>> THEN log
    ELSE LET l == Append(log, Head(new)) IN
         Kept(IF Len(l) = ResultCap + 1 THEN SubSeq(l, Len(l) - 499, Len(l)) ELSE l, Tail(new))

C14_LogCapAndTrim ==
    /\ Len(results) <= ResultCap
    /\ \A p \in Procs :
        Entered(p, "fire") =>
            [i \in 1 .. Len(results) |-> Brief(results[i])]
                = Kept([i \in 1 .. pre[p].n |-> Brief(pre[p].log[i])], Appended(p))

C14_Witness ==
    \E p \in Procs :
        /\ Fired(p) /\ pre[p].n = ResultCap
        /\ Len(results) = 500
        /\ results[500] = [task_id |-> "a", status |-> "failed", error |-> "raised", end_time |-> Now]
        /\ results[499] = pre[p].log[ResultCap]
        /\ results[1] = pre[p].log[502]
        /\ results[3].task_id = "b" /\ pre[p].log[3].task_id = "a"

(* C15, as claimed: with the write of the snapshot file failing, add_task, *)
(* remove_task, enable_task, disable_task and a dispatch do not raise to   *)
(* their caller, and emit_event goes on to its next subscriber.            *)
C15_WriteFailureSwallowed ==
    \A p \in Procs :
        /\ phase[p] # "raised"
        /\ (phase[p] = "returned" /\ Emitting(p))
            => Cardinality(Idx(p, "turn")) = Len(Subs(p))

(* C16: scheduling an enabled task through add_task or enable_task leaves  *)
(* exactly one firing job for its id when its trigger type is cron,        *)
(* interval or date, and creates no job and leaves next_run as it was when *)
(* its trigger type is event, condition or startup.                        *)
Scheduling(p, id) ==
    /\ trace[p] = <<>>
    /\ trace'[p] \in {<<Ev("add_task", id, "")>>, <<Ev("enable_task", id, "")>>}
    /\ tasks'[id].enabled
JobsOf(js, id) == Cardinality({j \in js : j = id})

C16_ScheduleByTrigger ==
    [][\A p \in Procs : \A id \in TaskIds :
        Scheduling(p, id) =>
            IF tasks'[id].trigger_type \in {"cron", "interval", "date"}
            THEN JobsOf(jobs', id) = 1
            ELSE /\ jobs' = jobs
                 /\ tasks'[id].next_run =
                        IF trace'[p][1].ev = "enable_task" THEN tasks[id].next_run ELSE Never]_vars

C16_Witness ==
    \E p \in Procs :
        /\ phase[p] = "returned" /\ Entered(p, "enable_task")
        /\ tasks[Subject(p)].trigger_type = "date" /\ tasks[Subject(p)].enabled
        /\ Subject(p) \in jobs /\ tasks[Subject(p)].next_run = Later
        /\ \E id \in TaskIds \ {Subject(p)} :
            /\ Present(tasks, id) /\ tasks[id].enabled
            /\ tasks[id].trigger_type = "startup" /\ id \notin jobs

(* C17, as claimed: no firing job exists for an id whose task is disabled  *)
(* or absent from the store.                                               *)
C17_JobsOnlyForEnabledTasks ==
    \A id \in jobs : Present(tasks, id) /\ tasks[id].enabled

(* the executions in flight: begun (the TaskResult is created) and not     *)
(* finalized                                                               *)
InFlight ==
    {<<p, k>> \in Procs \X (1 .. 4) :
        /\ k <= Len(stack[p]) /\ stack[p][k].kind = "exec" /\ stack[p][k].pc # "start"}

(* C19, as claimed: the number of task executions in flight never exceeds  *)
(* max_concurrent_tasks.                                                   *)
C19_ConcurrencyCeiling == Cardinality(InFlight) <= max_concurrent_tasks

(* C20, as claimed: no more than 3 executions of one task id are in flight *)
(* at a time, whatever started them.                                       *)
C20_ThreePerTask ==
    \A id \in TaskIds :
        Cardinality({e \in InFlight : stack[e[1]][e[2]].id = id}) <= 3

(* C22: every TaskResult in the ResultLog, every one a dispatch returned   *)
(* and every one in the list run_workflow returned has status Completed or *)
(* Failed and an end_time; Pending, Running and Cancelled do not appear.   *)
Terminal(r) == r.status \in {"completed", "failed"} /\ r.end_time # Never

C22_TerminalResults ==
    /\ \A i \in DOMAIN results : Terminal(results[i])
    /\ \A p \in Procs :
        /\ ret[p] # NoResult => Terminal(ret[p])
        /\ Working(p) => \A i \in DOMAIN out[p] : Terminal(out[p][i])

C22_Witness ==
    \E p \in Procs :
        /\ Working(p) /\ phase[p] = "returned" /\ Len(out[p]) = 2
        /\ out[p][1].status = "failed" /\ out[p][1].error = "raised"
        /\ out[p][2].status = "failed" /\ out[p][2].error = "Nieznana akcja: nosuch"
        /\ N(p, "sleep", "a") = 1
        /\ Len(results) = pre[p].n + 2 /\ results[Len(results)] = out[p][2]

(* C27: a dispatch of a task whose action name is not registered finalizes *)
(* one Failed TaskResult whose error names the action, calls no handler,   *)
(* leaves retry_count as it was and does not retry, whatever retry_on_fail *)
(* and retry_count are; run_count rises by 1 and last_run is set.          *)
C27_UnknownActionFailsOnce ==
    \A p \in Procs :
        (Began(p) /\ Before(p).action \notin actions) =>
            /\ N(p, "invoke", Subject(p)) = 0
            /\ N(p, "sleep", Subject(p)) = 0
            /\ N(p, "begin", Subject(p)) = 1
            /\ Cardinality(Idx(p, "append")) = 1
            /\ Len(results) = pre[p].n + 1
            /\ results[Len(results)] = ret[p]
            /\ ret[p].task_id = Subject(p)
            /\ ret[p].status = "failed"
            /\ ret[p].error = "Nieznana akcja: " \o Before(p).action
            /\ After(p).retry_count = Before(p).retry_count
            /\ After(p).run_count = Before(p).run_count + 1
            /\ After(p).last_run # Never

C27_Witness ==
    \E p \in Procs :
        /\ Began(p) /\ Before(p).action = "nosuch"
        /\ Before(p).retry_on_fail /\ Before(p).retry_count = 2
        /\ Before(p).last_run = Never
        /\ ret[p].error = "Nieznana akcja: nosuch"
        /\ After(p).retry_count = 2 /\ After(p).run_count = 1

(* the step in which caller p's entry point calls the handler of task id   *)
Invokes(p, id) ==
    /\ Len(trace'[p]) = Len(trace[p]) + 1
    /\ trace'[p][Len(trace'[p])].ev = "invoke"
    /\ trace'[p][Len(trace'[p])].task = id

(* C26, as claimed: the action handler of a task whose enabled flag is     *)
(* false is never called, through any entry point.                         *)
C26_DisabledNeverInvoked ==
    [][\A p \in Procs : \A id \in TaskIds : Invokes(p, id) => tasks[id].enabled]_vars

(* C23, as claimed: when an entry of the snapshot cannot be deserialized,  *)
(* the engine constructed from it holds none of the snapshot's tasks,      *)
(* neither those listed before the malformed entry nor those after it.     *)
C23_LoadAbandoned ==
    \A p \in Procs :
        (/\ Entered(p, "restart") /\ Len(trace[p]) = 1
         /\ \E id \in TaskIds : file[id] = Malformed)
        => \A id \in TaskIds : ~Present(tasks, id)

(* C24, as claimed: a task with max_runs = N >= 1 has run_count <= N in    *)
(* every state, also when executions of the task overlap and each passed   *)
(* the run-cap check before any of them was finalized.                     *)
C24_CapHoldsUnderOverlap ==
    \A id \in TaskIds :
        (Present(tasks, id) /\ tasks[id].max_runs >= 1)
            => tasks[id].run_count <= tasks[id].max_runs

(* C25, as claimed: over any interleaving of dispatches of tasks that list *)
(* the never-run task D as a dependency, D is executed through dependency  *)
(* resolution at most once.                                                *)
AsDependency(id) ==
    {<<p, k>> \in Procs \X (1 .. 12) :
        k <= Len(trace[p]) /\ trace[p][k] = Ev("begin", id, "dep")}

C25_DependencyRunsOnce ==
    \A id \in TaskIds : Cardinality(AsDependency(id)) <= 1

(* C30: the retry_count of a task in the store never rises and never falls *)
(* below 0, whatever dispatches of the task overlap; the retries of a      *)
(* firing are paid from the budget (they are no more than the drop of      *)
(* retry_count since the firing started), and a firing that starts with    *)
(* retry_count = 0 is not retried.                                         *)
C30_BudgetOnlyFalls ==
    [][\A id \in TaskIds :
        (Present(tasks, id) /\ Present(tasks', id)) =>
            /\ tasks'[id].retry_count <= tasks[id].retry_count
            /\ tasks'[id].retry_count >= 0
            /\ \A p \in Procs :
                (Entered(p, "fire")' /\ Subject(p)' = id) =>
                    /\ N(p, "sleep", id)' <= pre'[p].tasks[id].retry_count - tasks'[id].retry_count
                    /\ pre'[p].tasks[id].retry_count = 0 => N(p, "sleep", id)' = 0]_vars

C30_Witness ==
    \E p, q \in Procs :
        /\ p # q /\ Fired(p) /\ Entered(q, "fire") /\ phase[q] = "busy"
        /\ Subject(p) = "a" /\ Subject(q) = "a"
        /\ Before(p).retry_count = 1 /\ pre[q].tasks["a"].retry_count = 1
        /\ N(p, "sleep", "a") = 1 /\ N(q, "sleep", "a") = 0
        /\ N(q, "invoke", "a") = 1 /\ Running(q, "exec", "await")
        /\ tasks["a"].retry_count = 0

(* C21: the snapshot file changes only by a write of the complete          *)
(* serialization of the store as it is at that instant, whatever           *)
(* dispatches are in flight, and when no dispatch is in flight the file is *)
(* the serialization of the store.                                         *)
C21_WritesAreWhole ==
    [][/\ file' # file => file' = Snapshot(tasks')
       /\ Quiet' => file' = Snapshot(tasks')]_vars

C21_Witness ==
    \E p, q \in Procs :
        /\ p # q /\ Fired(p) /\ Entered(q, "fire") /\ phase[q] = "busy"
        /\ Subject(p) = "b" /\ Subject(q) = "b"
        /\ N(p, "append", "a") = 1 /\ N(q, "begin", "a") = 1 /\ N(q, "append", "a") = 0
        /\ file = Snapshot(tasks) /\ tasks["b"].run_count = 1

(* C28: with no cycle among the dependencies reachable from task T and     *)
(* every handler call returning or raising in the end, a dispatch of T     *)
(* finishes; it has then finalized one TaskResult of T or was cut off at   *)
(* the run cap, and it calls T's handler at most 1 + retry_count times.    *)
C28_DispatchTerminates ==
    /\ [](\A p \in Procs : Entered(p, "fire") =>
            /\ N(p, "invoke", Subject(p)) <= 1 + Before(p).retry_count
            /\ Fired(p) => N(p, "append", Subject(p)) + N(p, "cap", Subject(p)) = 1)
    /\ \A p \in Procs : (phase[p] = "busy" /\ Entered(p, "fire")) ~> Fired(p)

C28_Witness ==
    \E p \in Procs :
        /\ Fired(p) /\ Subject(p) = "c"
        /\ Before(p).retry_count = 1 /\ N(p, "invoke", "c") = 2
        /\ N(p, "append", "a") = 1 /\ N(p, "append", "b") = 1
        /\ N(p, "sleep", "a") = 1 /\ N(p, "sleep", "b") = 1
        /\ pre[p].tasks["a"].dependencies = <<"b">>
        /\ N(p, "append", "c") = 1

(* every selector of the workflow ends it ("stop", none, a name no step    *)
(* has), is "next", or resolves to an index above the step it stands in    *)
ForwardOnly(steps) ==
    \A i \in 1 .. Len(steps) : \A sel \in {steps[i].on_success, steps[i].on_failure} :
        Target(steps, i - 1, sel) = -1 \/ Target(steps, i - 1, sel) > i - 1

(* C29: a run of a workflow whose selectors only end it or lead forward    *)
(* terminates, executes its steps in increasing index order, each at most  *)
(* once, and returns at most len(steps) results.                           *)
C29_ForwardWorkflowEnds ==
    /\ [](\A p \in Procs : (Working(p) /\ ForwardOnly(Steps(p))) =>
            /\ \A j, k \in Idx(p, "step") : j < k => trace[p][j].n < trace[p][k].n
            /\ Cardinality(Idx(p, "step")) <= Len(Steps(p))
            /\ phase[p] = "returned" =>
                /\ Len(out[p]) <= Len(Steps(p))
                /\ Len(out[p]) = Cardinality(Idx(p, "step")))
    /\ \A p \in Procs :
        (phase[p] = "busy" /\ Working(p) /\ ForwardOnly(Steps(p))) ~> (phase[p] # "busy")

C29_Witness ==
    \E p \in Procs :
        /\ Working(p) /\ phase[p] = "returned" /\ ForwardOnly(Steps(p))
        /\ Len(Steps(p)) = 3 /\ Steps(p)[1].on_success = SelStr("n2")
        /\ Len(out[p]) = 2 /\ out[p][2].status = "failed"
        /\ \E k \in Idx(p, "step") : trace[p][k].n = 1

====
